---- MODULE Spec2Model ----
(***************************************************************************)
(* Model of library.py: LibPkg, SchPart and SchLib construction and        *)
(* SchPart.params.                                                         *)
(*                                                                         *)
(* Python values.  bytes and str are sequences of byte values / code       *)
(* points, None is the reserved value <<-1>>, a dict with unordered use is *)
(* a function, the ordered part table is a sequence of [key, val] pairs.   *)
(* A call that may raise returns a record whose exc field is the name of   *)
(* the exception class raised, or NoExc.                                   *)
(***************************************************************************)
EXTENDS Integers, Sequences, FiniteSets, TLC

\* ------------------------------------------------------------------ bounds
MaxRecords == 2
MaxRefs == 3
MaxDocs == 2

\* ------------------------------------------------------ Python primitives
None == <<-1>>
NoExc == ""

\* except ValueError: matches ValueError and its subclass UnicodeDecodeError
IsValueError(exc) == exc \in {"ValueError", "UnicodeDecodeError"}

\* x.decode('ascii') for x a bytes value or None
DecodeAscii(x) ==
    IF x = None THEN [exc |-> "AttributeError", val |-> <<>>]
    ELSE IF \E i \in 1..Len(x) : x[i] >= 128
         THEN [exc |-> "UnicodeDecodeError", val |-> <<>>]
         ELSE [exc |-> NoExc, val |-> x]

\* bytes.decode('utf8', errors='replace') for byte strings made of ASCII
\* bytes, two-byte sequences and stray lead or continuation bytes
RECURSIVE DecodeUtf8Replace(_)
DecodeUtf8Replace(b) ==
    IF b = <<>> THEN <<>>
    ELSE IF b[1] < 128 THEN <<b[1]>> \o DecodeUtf8Replace(Tail(b))
    ELSE IF /\ b[1] >= 194 /\ b[1] <= 223 /\ Len(b) >= 2
            /\ b[2] >= 128 /\ b[2] <= 191
         THEN <<(b[1] - 192) * 64 + (b[2] - 128)>>
                  \o DecodeUtf8Replace(Tail(Tail(b)))
         ELSE <<65533>> \o DecodeUtf8Replace(Tail(b))

\* str.replace('\n', ' ')
ReplaceNewlines(s) == [i \in 1..Len(s) |-> IF s[i] = 10 THEN 32 ELSE s[i]]

\* int(b) for a bytes value of decimal digits
RECURSIVE DigitsValue(_)
DigitsValue(b) ==
    IF b = <<>> THEN 0
    ELSE 10 * DigitsValue(SubSeq(b, 1, Len(b) - 1)) + (b[Len(b)] - 48)

ParseInt(b) ==
    IF b # <<>> /\ \A i \in 1..Len(b) : b[i] >= 48 /\ b[i] <= 57
    THEN [exc |-> NoExc, val |-> DigitsValue(b)]
    ELSE [exc |-> "ValueError", val |-> 0]

\* ------------------------------------------- altium module (property maps)
\* Properties.get(key, default)
Get(props, key, default) ==
    IF key \in DOMAIN props THEN props[key] ELSE default

\* Properties.get_int(key): the stored bytes as a decimal integer
GetInt(props, key) == ParseInt(props[key])

\* Properties.check(key, expected, alternate=None): format error unless the
\* key is present and its value is expected or, when given, alternate
Check(props, key, expected, alternate) ==
    IF /\ key \in DOMAIN props
       /\ \/ props[key] = expected
          \/ alternate # None /\ props[key] = alternate
    THEN NoExc ELSE "FormatError"

\* A framed record of a stream: a property list, a record that
\* parse_properties maps to None, or a body that cannot be split into
\* KEY=VALUE segments.
PropsRecord(p) == [framing |-> "props", props |-> p]
BinaryRecord == [framing |-> "binary", props |-> <<>>]
MalformedRecord == [framing |-> "malformed", props |-> <<>>]

\* altium.parse_properties(stream, record)
ParseProperties(raw) ==
    CASE raw.framing = "malformed" ->
             [exc |-> "ValueError", isNone |-> FALSE, props |-> <<>>]
      [] raw.framing = "binary" ->
             [exc |-> NoExc, isNone |-> TRUE, props |-> <<>>]
      [] OTHER ->
             [exc |-> NoExc, isNone |-> FALSE, props |-> raw.props]

\* --------------------------------------------------------------- SchPart
KindProperty == 41
KindDesignator == 34
KindFootprint == 45

\* Faulty variant: an existing key keeps its first value
DictSet_KeepFirst(d, key, val) == d @@ (key :> val)

\* dict[key] = val
DictSet(d, key, val) == (key :> val) @@ d

\* The object before __init__ has assigned anything
NoPart ==
    [id |-> None, desc |-> None, designator |-> None,
     properties |-> <<>>, footprints |-> <<>>]

\* Faulty variant: LIBREFERENCE is tried first
PartId_LibrefFirst(header) ==
    IF Get(header, "LIBREFERENCE", None) # None
    THEN DecodeAscii(Get(header, "LIBREFERENCE", None))
    ELSE DecodeAscii(Get(header, "DESIGNITEMID", None))

\* Lines 59-63: the id of a decoded header record
PartId(header) ==
    IF Get(header, "DESIGNITEMID", None) # None
    THEN DecodeAscii(Get(header, "DESIGNITEMID", None))
    ELSE DecodeAscii(Get(header, "LIBREFERENCE", None))

\* Lines 53-68: header = next(records), desc, id, empty designator and maps
PartHeaderStep(records, description) ==
    IF records = <<>> THEN [exc |-> "StopIteration", self |-> NoPart]
    ELSE LET parsed == ParseProperties(records[1])
         IN  IF parsed.exc # NoExc THEN [exc |-> parsed.exc, self |-> NoPart]
             ELSE IF parsed.isNone
                  THEN [exc |-> "AttributeError", self |-> NoPart]
             ELSE LET pid == PartId(parsed.props)
                  IN  IF pid.exc # NoExc
                      THEN [exc |-> pid.exc, self |-> NoPart]
                      ELSE [exc |-> NoExc,
                            self |-> [id |-> pid.val, desc |-> description,
                                      designator |-> <<>>,
                                      properties |-> <<>>,
                                      footprints |-> <<>>]]

\* Lines 73-77: a kind-41 record
PropertyRecord(self, record) ==
    LET name == DecodeAscii(Get(record, "NAME", None))
        text == DecodeAscii(Get(record, "TEXT", <<>>))
    IN  IF name.exc # NoExc THEN [exc |-> name.exc, self |-> self]
        ELSE IF text.exc # NoExc THEN [exc |-> text.exc, self |-> self]
        ELSE [exc |-> NoExc,
              self |-> [self EXCEPT !.properties =
                            DictSet(self.properties, name.val, text.val)]]

\* Lines 78-80: a kind-34 record
DesignatorRecord(self, record) ==
    LET text == DecodeAscii(Get(record, "TEXT", None))
    IN  IF text.exc # NoExc THEN [exc |-> text.exc, self |-> self]
        ELSE [exc |-> NoExc, self |-> [self EXCEPT !.designator = text.val]]

\* Lines 81-85: a kind-45 record
FootprintRecord(self, record) ==
    LET name == DecodeAscii(Get(record, "MODELNAME", None))
        text == DecodeAscii(Get(record, "DESCRIPTION", <<>>))
    IN  IF name.exc # NoExc THEN [exc |-> name.exc, self |-> self]
        ELSE IF text.exc # NoExc THEN [exc |-> text.exc, self |-> self]
        ELSE [exc |-> NoExc,
              self |-> [self EXCEPT !.footprints =
                            DictSet(self.footprints, name.val, text.val)]]

\* Lines 69-85: one iteration of the record loop, on one framed record
PartRecordStep(self, raw) ==
    LET parsed == ParseProperties(raw)
    IN  IF parsed.exc # NoExc THEN [exc |-> parsed.exc, self |-> self]
        ELSE IF parsed.isNone THEN [exc |-> NoExc, self |-> self]
        ELSE LET kind == GetInt(parsed.props, "RECORD")
             IN  IF kind.exc # NoExc THEN [exc |-> kind.exc, self |-> self]
                 ELSE IF kind.val = KindProperty
                      THEN PropertyRecord(self, parsed.props)
                 ELSE IF kind.val = KindDesignator
                      THEN DesignatorRecord(self, parsed.props)
                 ELSE IF kind.val = KindFootprint
                      THEN FootprintRecord(self, parsed.props)
                 ELSE [exc |-> NoExc, self |-> self]

\* Lines 69-85: the record loop from record pos on
RECURSIVE PartRecordLoop(_, _, _)
PartRecordLoop(self, records, pos) ==
    IF pos > Len(records) THEN [exc |-> NoExc, self |-> self]
    ELSE LET r == PartRecordStep(self, records[pos])
         IN  IF r.exc # NoExc THEN r
             ELSE PartRecordLoop(r.self, records, pos + 1)

\* Lines 51-85: SchPart(stream, description)
SchPartInit(records, description) ==
    LET h == PartHeaderStep(records, description)
    IN  IF h.exc # NoExc THEN h ELSE PartRecordLoop(h.self, records, 2)

\* Lines 89-96: SchPart.params()
\* The str keys 'id', 'designator' and 'description'
KeyId == <<105, 100>>
KeyDesignator == <<100, 101, 115, 105, 103, 110, 97, 116, 111, 114>>
KeyDescription == <<100, 101, 115, 99, 114, 105, 112, 116, 105, 111, 110>>

\* Lines 90-94: the dict literal of the fixed fields
FixedParams(self) ==
    (KeyId :> self.id) @@ (KeyDesignator :> self.designator)
        @@ (KeyDescription :> self.desc)

\* Faulty variant: the entries already in d win
DictUpdate_KeepOld(d, other) == d @@ other

\* dict.update(other): the entries of other replace those of d
DictUpdate(d, other) == other @@ d

\* Lines 89-96: SchPart.params()
Params(self) == DictUpdate(FixedParams(self), self.properties)

\* ---------------------------------------------------------------- SchLib
\* b"Protel for Windows - Schematic Library Editor Binary File Version 5.0"
Signature ==
    <<80, 114, 111, 116, 101, 108, 32, 102, 111, 114, 32, 87,
      105, 110, 100, 111, 119, 115, 32, 45, 32, 83, 99, 104,
      101, 109, 97, 116, 105, 99, 32, 76, 105, 98, 114, 97,
      114, 121, 32, 69, 100, 105, 116, 111, 114, 32, 66, 105,
      110, 97, 114, 121, 32, 70, 105, 108, 101, 32, 86, 101,
      114, 115, 105, 111, 110, 32, 53, 46, 48>>

\* b"2"
MinorVersion == <<50>>

\* The part table before line 123 has assigned it
NoParts == <<[key |-> None, val |-> NoPart]>>

\* self.parts[key] = val on an insertion-ordered dict
PartsSet(table, key, val) ==
    IF \E i \in 1..Len(table) : table[i].key = key
    THEN [i \in 1..Len(table) |->
             IF table[i].key = key THEN [key |-> key, val |-> val]
             ELSE table[i]]
    ELSE Append(table, [key |-> key, val |-> val])

\* list(parts.keys())
PartsKeys(table) == [i \in 1..Len(table) |-> table[i].key]

\* Lines 113-118: open the container and decode the FileHeader record
LibOpenStep(f) ==
    IF ~f.readable THEN [exc |-> "OSError", header |-> <<>>]
    ELSE LET parsed == ParseProperties(f.header)
         IN  IF parsed.exc # NoExc
             THEN [exc |-> parsed.exc, header |-> <<>>]
             ELSE IF parsed.isNone
                  THEN [exc |-> "AttributeError", header |-> <<>>]
             ELSE [exc |-> NoExc, header |-> parsed.props]

\* Faulty variant: the minor version is not checked
HeaderCheck_SignatureOnly(header) ==
    Check(header, "HEADER", Signature, None)

\* Lines 119-120: the two header checks, in order
HeaderCheck(header) ==
    IF Check(header, "HEADER", Signature, None) # NoExc
    THEN Check(header, "HEADER", Signature, None)
    ELSE Check(header, "MINORVERSION", None, MinorVersion)

\* Line 126: "LIBREF{}".format(cnt), line 127: "COMPDESCR{}".format(cnt)
\* (the formatted keys of the indices that occur, computed once)
LibrefKeys == [n \in 0..(MaxRefs + 1) |-> "LIBREF" \o ToString(n)]
CompdescrKeys == [n \in 0..(MaxRefs + 1) |-> "COMPDESCR" \o ToString(n)]
LibrefKey(n) == LibrefKeys[n]
CompdescrKey(n) == CompdescrKeys[n]

\* Lines 127-129: the description of the part at index n
Description(header, n) ==
    ReplaceNewlines(DecodeUtf8Replace(Get(header, CompdescrKey(n), <<>>)))

\* Faulty variant: only an absent LIBREF stops the loop
NotLibref_AbsentOnly(libref) == libref = None

\* Line 131: not libref
NotLibref(libref) == libref = None \/ libref = <<>>

\* Line 137: except ValueError
Caught(exc) == IsValueError(exc)

\* Faulty variant: the counter does not advance after a caught error
NextCnt_SkipKeeps(n, inserted) == IF inserted THEN n + 1 ELSE n

\* Line 139: cnt += 1, reached after an insertion and after a caught error
NextCnt(n, inserted) == n + 1

\* Lines 126-139: one iteration of the discovery loop.  origin names the
\* call that raised: "libref" (line 133 decode), "openstream" (line 133)
\* or "part" (line 135).
LibLoopStep(f, header, n, table, streams) ==
    LET libref == Get(header, LibrefKey(n), None)
        desc == Description(header, n)
        name == DecodeAscii(libref)
        keep == [exc |-> NoExc, origin |-> "", stop |-> FALSE, cnt |-> n,
                 parts |-> table, opened |-> streams]
    IN  IF NotLibref(libref) THEN [keep EXCEPT !.stop = TRUE]
        ELSE IF name.exc # NoExc
             THEN [keep EXCEPT !.exc = name.exc, !.origin = "libref"]
        ELSE IF name.val \notin DOMAIN f.container
             THEN [keep EXCEPT !.exc = "OSError", !.origin = "openstream"]
        ELSE LET part == SchPartInit(f.container[name.val], desc)
                 now == Append(streams, name.val)
             IN  IF part.exc = NoExc
                 THEN [keep EXCEPT !.cnt = NextCnt(n, TRUE),
                                   !.parts = PartsSet(table, name.val, part.self),
                                   !.opened = now]
                 ELSE IF Caught(part.exc)
                      THEN [keep EXCEPT !.cnt = NextCnt(n, FALSE),
                                        !.opened = now]
                 ELSE [keep EXCEPT !.exc = part.exc, !.origin = "part",
                                   !.opened = now]

\* Lines 125-139: the discovery loop from index n on; r is the outcome of
\* the iteration at index n
RECURSIVE LibLoop(_, _, _, _, _), LibLoopAfter(_, _, _)
LibLoopAfter(f, header, r) ==
    IF r.exc # NoExc \/ r.stop THEN r
    ELSE LibLoop(f, header, r.cnt, r.parts, r.opened)

LibLoop(f, header, n, table, streams) ==
    LibLoopAfter(f, header, LibLoopStep(f, header, n, table, streams))

\* Lines 119-139 on the decoded header
LibChecked(f, header, status) ==
    IF status # NoExc
    THEN [exc |-> status, origin |-> "check", stop |-> FALSE, cnt |-> 0,
          parts |-> NoParts, opened |-> <<>>]
    ELSE LibLoop(f, header, 0, <<>>, <<>>)

\* Lines 113-139 on the outcome o of opening the file
LibOpened(f, o) ==
    IF o.exc # NoExc
    THEN [exc |-> o.exc, origin |-> "open", stop |-> FALSE, cnt |-> 0,
          parts |-> NoParts, opened |-> <<>>]
    ELSE LibChecked(f, o.header, HeaderCheck(o.header))

\* Lines 111-139: SchLib(file)
SchLibInit(f) == LibOpened(f, LibOpenStep(f))

\* ---------------------------------------------------------------- LibPkg
\* str.lower() on the extensions that occur
Lower(ext) ==
    CASE ext = ".SchLib" -> ".schlib"
      [] ext = ".schlib" -> ".schlib"
      [] ext = ".PcbLib" -> ".pcblib"

\* os.path.basename(documentpath)
Basename(documentpath) == documentpath.base \o documentpath.ext

\* Line 32: os.path.splitext(path)[-1].lower() == '.schlib'
IsSchLib(documentpath) == Lower(documentpath.ext) = ".schlib"

\* Line 34: self.schlibs[basename] = lib, or the error SchLib raised
PkgStore(documentpath, lib, libs) ==
    IF lib.exc # NoExc THEN [exc |-> lib.exc, schlibs |-> libs]
    ELSE [exc |-> NoExc,
          schlibs |-> (Basename(documentpath) :> lib.parts) @@ libs]

\* Lines 29-34: one iteration of the document loop
PkgDocStep(p, i, libs) ==
    IF ~IsSchLib(p.documents[i]) THEN [exc |-> NoExc, schlibs |-> libs]
    ELSE PkgStore(p.documents[i],
                  SchLibInit(p.files[Basename(p.documents[i])]), libs)

\* ---------------------------------------------------------------- inputs
\* Byte strings the inputs are built from
BytesA == <<65>>
BytesB == <<66>>
BytesR == <<82>>
BytesU == <<85>>
BytesNonAscii == <<200>>
BytesComment == <<67, 111, 109, 109, 101, 110, 116>>
Bytes10k == <<49, 48, 107>>
Bytes20k == <<50, 48, 107>>

\* The property map with the keys of rec whose value is not None
Props(rec) ==
    [k \in {x \in DOMAIN rec : rec[x] # None} |-> rec[k]]

\* First records of a part's Data stream
PartHeaders ==
    {PropsRecord(Props([DESIGNITEMID |-> d, LIBREFERENCE |-> l])) :
         d \in {None, BytesA, BytesNonAscii},
         l \in {None, BytesB, BytesNonAscii}}
    \cup {BinaryRecord, MalformedRecord}

\* Records after the first
PropertyRecords ==
    {PropsRecord(Props([RECORD |-> <<52, 49>>, NAME |-> n, TEXT |-> t])) :
         n \in {BytesComment}, t \in {None, Bytes10k, Bytes20k, BytesNonAscii}}
    \cup {PropsRecord(Props([RECORD |-> <<52, 49>>, NAME |-> n, TEXT |-> Bytes20k])) :
             n \in {None, KeyId, KeyDesignator, KeyDescription}}

DesignatorRecords ==
    {PropsRecord(Props([RECORD |-> <<51, 52>>, TEXT |-> t])) :
         t \in {None, BytesR, BytesU}}

FootprintRecords ==
    {PropsRecord(Props([RECORD |-> <<52, 53>>, MODELNAME |-> BytesA,
                        DESCRIPTION |-> d])) : d \in {None, BytesB}}

OtherRecords ==
    {PropsRecord(Props([RECORD |-> <<49>>, TEXT |-> BytesR])),
     PropsRecord(Props([RECORD |-> BytesR])),
     BinaryRecord, MalformedRecord}

PartRecords ==
    PropertyRecords \cup DesignatorRecords \cup FootprintRecords
        \cup OtherRecords

SeqsUpTo(S, n) == UNION {[1..k -> S] : k \in 0..n}

\* Data streams SchPart is constructed from
PartStreams ==
    {<<>>} \cup {<<h>> \o rest : h \in PartHeaders,
                                 rest \in SeqsUpTo(PartRecords, MaxRecords)}

\* Data streams stored in the containers of the libraries
GoodStream ==
    <<PropsRecord(Props([DESIGNITEMID |-> BytesA])),
      PropsRecord(Props([RECORD |-> <<51, 52>>, TEXT |-> BytesU])),
      PropsRecord(Props([RECORD |-> <<52, 49>>, NAME |-> BytesComment,
                         TEXT |-> Bytes10k]))>>
NoIdStream ==
    <<PropsRecord(Props([RECORD |-> <<49>>])),
      PropsRecord(Props([RECORD |-> <<51, 52>>, TEXT |-> BytesU]))>>
NoTextStream ==
    <<PropsRecord(Props([LIBREFERENCE |-> BytesB])),
      PropsRecord(Props([RECORD |-> <<51, 52>>]))>>
NonAsciiStream ==
    <<PropsRecord(Props([DESIGNITEMID |-> BytesA])),
      PropsRecord(Props([RECORD |-> <<52, 49>>, NAME |-> BytesComment,
                         TEXT |-> BytesNonAscii]))>>
MalformedStream ==
    <<PropsRecord(Props([DESIGNITEMID |-> BytesA])),
      MalformedRecord,
      PropsRecord(Props([RECORD |-> <<51, 52>>, TEXT |-> BytesU]))>>
LibStreams ==
    {GoodStream, NoIdStream, NoTextStream, NonAsciiStream, MalformedStream}

\* Containers: every subset of the storages A and B, each with a stream
Containers ==
    UNION {[names -> LibStreams] : names \in SUBSET {BytesA, BytesB}}

\* A library header record with the given HEADER and MINORVERSION values,
\* LIBREF0.. values refs and a COMPDESCR0
LibHeader(sig, minor, refs) ==
    LET fixed == Props([HEADER |-> sig, MINORVERSION |-> minor,
                        COMPDESCR0 |-> <<65, 10, 200>>])
        present == {n \in DOMAIN refs : refs[n] # None}
        librefs == [k \in {LibrefKey(n) : n \in present} |->
                       refs[CHOOSE n \in present : LibrefKey(n) = k]]
    IN  PropsRecord(librefs @@ fixed)

WrongSignature == SubSeq(Signature, 1, Len(Signature) - 1)

LibHeaders ==
    {LibHeader(sig, minor, refs) :
         sig \in {None, Signature, WrongSignature},
         minor \in {None, MinorVersion, <<49>>},
         refs \in [0..(MaxRefs - 1) ->
                      {None, <<>>, BytesA, BytesB, BytesNonAscii}]}

UnreadableFile ==
    [readable |-> FALSE, header |-> BinaryRecord, container |-> <<>>]

LibFiles ==
    {UnreadableFile} \cup
    {[readable |-> TRUE, header |-> h, container |-> c] :
         h \in LibHeaders, c \in Containers}

\* Library files of the packages
GoodFile ==
    [readable |-> TRUE,
     header |-> LibHeader(Signature, MinorVersion,
                          [n \in 0..1 |-> IF n = 0 THEN BytesA ELSE BytesB]),
     container |-> (BytesA :> GoodStream) @@ (BytesB :> GoodStream)]
BadSignatureFile ==
    [GoodFile EXCEPT !.header =
        LibHeader(WrongSignature, MinorVersion, [n \in 0..0 |-> BytesA])]
BadVersionFile ==
    [GoodFile EXCEPT !.header =
        LibHeader(Signature, <<49>>, [n \in 0..0 |-> BytesA])]
PkgFiles == {GoodFile, BadSignatureFile, BadVersionFile, UnreadableFile}

DocumentPaths ==
    {[base |-> "a", ext |-> ".SchLib"], [base |-> "b", ext |-> ".schlib"],
     [base |-> "c", ext |-> ".PcbLib"]}

Packages ==
    {[version |-> v, documents |-> d, files |-> f] :
         v \in {"1.0", "2.0"},
         d \in SeqsUpTo(DocumentPaths, MaxDocs),
         f \in [{"a.SchLib", "b.schlib"} -> PkgFiles]}

\* ----------------------------------------------------------------- state
VARIABLES
    pStream, pDesc, ppc, pos, part, pexc, row,
    file, lpc, hdr, cnt, parts, opened, lexc,
    pkg, kpc, docIdx, schlibs, kexc

partVars == <<pStream, pDesc, ppc, pos, part, pexc, row>>
libVars == <<file, lpc, hdr, cnt, parts, opened, lexc>>
pkgVars == <<pkg, kpc, docIdx, schlibs, kexc>>
vars == <<partVars, libVars, pkgVars>>

NoRow == <<>>
NoRaise == [exc |-> NoExc, origin |-> ""]

PartIdle ==
    /\ pStream = <<>> /\ pDesc = <<>> /\ ppc = "idle" /\ pos = 0
    /\ part = NoPart /\ pexc = NoExc /\ row = NoRow
LibIdle ==
    /\ file = UnreadableFile /\ lpc = "idle" /\ hdr = <<>> /\ cnt = 0
    /\ parts = NoParts /\ opened = <<>> /\ lexc = NoRaise
PkgIdle ==
    /\ pkg = [version |-> "", documents |-> <<>>, files |-> <<>>]
    /\ kpc = "idle" /\ docIdx = 0 /\ schlibs = <<>> /\ kexc = NoExc

\* ------------------------------------------------- SchPart(stream, desc)
PartInit ==
    /\ pStream \in PartStreams
    /\ pDesc \in {<<>>, BytesB}
    /\ ppc = "header" /\ pos = 0 /\ part = NoPart /\ pexc = NoExc
    /\ row = NoRow
    /\ LibIdle /\ PkgIdle

\* Lines 53-68
PartHeader ==
    /\ ppc = "header"
    /\ \E r \in {PartHeaderStep(pStream, pDesc)} :
           /\ part' = r.self
           /\ pexc' = r.exc
           /\ ppc' = IF r.exc = NoExc THEN "records" ELSE "failed"
    /\ pos' = 2
    /\ UNCHANGED <<pStream, pDesc, row, libVars, pkgVars>>

\* Lines 69-85, one record
PartRecord ==
    /\ ppc = "records"
    /\ pos <= Len(pStream)
    /\ \E r \in {PartRecordStep(part, pStream[pos])} :
           /\ part' = r.self
           /\ pexc' = r.exc
           /\ ppc' = IF r.exc = NoExc THEN "records" ELSE "failed"
    /\ pos' = pos + 1
    /\ UNCHANGED <<pStream, pDesc, row, libVars, pkgVars>>

\* Line 69, records exhausted: __init__ returns
PartReturn ==
    /\ ppc = "records"
    /\ pos > Len(pStream)
    /\ ppc' = "done"
    /\ UNCHANGED <<pStream, pDesc, pos, part, pexc, row, libVars, pkgVars>>

\* Lines 89-96: params() on the constructed part
PartParams ==
    /\ ppc = "done"
    /\ row = NoRow
    /\ row' = Params(part)
    /\ UNCHANGED <<pStream, pDesc, ppc, pos, part, pexc, libVars, pkgVars>>

PartNext == PartHeader \/ PartRecord \/ PartReturn \/ PartParams

PartSpec == PartInit /\ [][PartNext]_vars

\* ---------------------------------------------------------- SchLib(file)
Init ==
    /\ file \in LibFiles
    /\ lpc = "open" /\ hdr = <<>> /\ cnt = 0 /\ parts = NoParts
    /\ opened = <<>> /\ lexc = NoRaise
    /\ PartIdle /\ PkgIdle

\* Lines 113-118
LibOpen ==
    /\ lpc = "open"
    /\ \E r \in {LibOpenStep(file)} :
           /\ hdr' = r.header
           /\ lexc' = [exc |-> r.exc,
                       origin |-> IF r.exc = NoExc THEN "" ELSE "open"]
           /\ lpc' = IF r.exc = NoExc THEN "check" ELSE "failed"
    /\ UNCHANGED <<file, cnt, parts, opened, partVars, pkgVars>>

\* Lines 119-124
LibCheck ==
    /\ lpc = "check"
    /\ IF HeaderCheck(hdr) = NoExc
       THEN /\ parts' = <<>>
            /\ lpc' = "loop"
            /\ UNCHANGED lexc
       ELSE /\ lexc' = [exc |-> HeaderCheck(hdr), origin |-> "check"]
            /\ lpc' = "failed"
            /\ UNCHANGED parts
    /\ cnt' = 0
    /\ UNCHANGED <<file, hdr, opened, partVars, pkgVars>>

\* Lines 125-139, one iteration
LibIterate ==
    /\ lpc = "loop"
    /\ \E r \in {LibLoopStep(file, hdr, cnt, parts, opened)} :
           /\ cnt' = r.cnt
           /\ parts' = r.parts
           /\ opened' = r.opened
           /\ lexc' = [exc |-> r.exc, origin |-> r.origin]
           /\ lpc' = IF r.exc # NoExc THEN "failed"
                     ELSE IF r.stop THEN "done" ELSE "loop"
    /\ UNCHANGED <<file, hdr, partVars, pkgVars>>

Next == LibOpen \/ LibCheck \/ LibIterate

Spec == Init /\ [][Next]_vars

\* The interpreter keeps executing the constructor until it returns or raises
FairSpec == Spec /\ WF_vars(Next)

\* ---------------------------------------------------------- LibPkg(file)
PkgInit ==
    /\ pkg \in Packages
    /\ kpc = "open" /\ docIdx = 0 /\ schlibs = <<>> /\ kexc = NoExc
    /\ PartIdle /\ LibIdle

\* Lines 20-28
PkgOpen ==
    /\ kpc = "open"
    /\ IF pkg.version # "1.0"
       THEN kpc' = "failed" /\ kexc' = "OSError"
       ELSE kpc' = "docs" /\ kexc' = NoExc
    /\ docIdx' = 1
    /\ UNCHANGED <<pkg, schlibs, partVars, libVars>>

\* Lines 29-34, one document
PkgDocument ==
    /\ kpc = "docs"
    /\ docIdx <= Len(pkg.documents)
    /\ \E r \in {PkgDocStep(pkg, docIdx, schlibs)} :
           /\ schlibs' = r.schlibs
           /\ kexc' = r.exc
           /\ kpc' = IF r.exc = NoExc THEN "docs" ELSE "failed"
    /\ docIdx' = docIdx + 1
    /\ UNCHANGED <<pkg, partVars, libVars>>

\* Line 29, documents exhausted: __init__ returns
PkgReturn ==
    /\ kpc = "docs"
    /\ docIdx > Len(pkg.documents)
    /\ kpc' = "done"
    /\ UNCHANGED <<pkg, docIdx, schlibs, kexc, partVars, libVars>>

PkgNext == PkgOpen \/ PkgDocument \/ PkgReturn

PkgSpec == PkgInit /\ [][PkgNext]_vars

\* ------------------------------------------------- properties of SchPart
PartEnded == ppc \in {"done", "failed"}

\* The decoded header of the stream under construction
HasHeader == Len(pStream) >= 1 /\ pStream[1].framing = "props"
PHeader == pStream[1].props

\* Indices of the decoded records of kind k after the header
KindIdx(k) ==
    {i \in 2..Len(pStream) :
        /\ pStream[i].framing = "props"
        /\ ParseInt(pStream[i].props["RECORD"]) = [exc |-> NoExc, val |-> k]}

\* Indices of the kind-k records whose field key has value v
KeyedIdx(k, key, v) ==
    {i \in KindIdx(k) : Get(pStream[i].props, key, None) = v}

Last(S) == CHOOSE i \in S : \A j \in S : j <= i

\* The map that sends each value of field key among the kind-k records to
\* field val (empty when absent) of the last record carrying it
LastWins(k, key, val) ==
    [v \in {pStream[i].props[key] : i \in KindIdx(k)} |->
        Get(pStream[Last(KeyedIdx(k, key, v))].props, val, <<>>)]

\* C5: a constructed Part has properties = NAME -> TEXT of the last kind-41
\* record with that NAME (empty when TEXT is absent), footprints =
\* MODELNAME -> DESCRIPTION of the last kind-45 record with that MODELNAME,
\* designator = TEXT of the last kind-34 record or '' when there is none,
\* and id, description as set from the header and the caller: records of
\* other kinds leave no trace.
C5_LastRecordWins ==
    ppc = "done" =>
        /\ part.properties = LastWins(41, "NAME", "TEXT")
        /\ part.footprints = LastWins(45, "MODELNAME", "DESCRIPTION")
        /\ part.designator =
               IF KindIdx(34) = {} THEN <<>>
               ELSE pStream[Last(KindIdx(34))].props["TEXT"]
        /\ part.id = Get(PHeader, "DESIGNITEMID",
                         Get(PHeader, "LIBREFERENCE", None))
        /\ part.desc = pDesc

\* C5 witness: a Part built from two kind-41 records with the same NAME and
\* different TEXT
C5_Witness ==
    /\ ppc = "done"
    /\ \E i, j \in KindIdx(41) :
           /\ i < j
           /\ pStream[i].props["NAME"] = pStream[j].props["NAME"]
           /\ Get(pStream[i].props, "TEXT", <<>>)
                  # Get(pStream[j].props, "TEXT", <<>>)

IsAscii(b) == \A i \in 1..Len(b) : b[i] < 128

\* C6 as stated: once the header is consumed, id is the DESIGNITEMID value
\* when present, else the LIBREFERENCE value when present, else construction
\* has failed at the header with no Part.
C6_AsStated ==
    (HasHeader /\ ppc \in {"records", "done", "failed"}) =>
        IF "DESIGNITEMID" \in DOMAIN PHeader
        THEN part.id = PHeader["DESIGNITEMID"]
        ELSE IF "LIBREFERENCE" \in DOMAIN PHeader
             THEN part.id = PHeader["LIBREFERENCE"]
             ELSE ppc = "failed" /\ part = NoPart

\* The field the id is taken from: DESIGNITEMID when present
IdField ==
    IF "DESIGNITEMID" \in DOMAIN PHeader THEN "DESIGNITEMID"
    ELSE "LIBREFERENCE"

\* C6 amended: once the header is consumed, id is the ASCII decoding of
\* DESIGNITEMID when present, else of LIBREFERENCE when present; when the
\* chosen field is not ASCII construction fails with a decode error and
\* the other field is not tried; when both are absent construction fails
\* with an AttributeError; a failure at the header leaves no Part.
C6_IdFromHeader ==
    (HasHeader /\ ppc \in {"records", "done", "failed"}) =>
        IF IdField \notin DOMAIN PHeader
        THEN ppc = "failed" /\ part = NoPart /\ pexc = "AttributeError"
        ELSE IF IsAscii(PHeader[IdField])
             THEN part.id = PHeader[IdField]
             ELSE /\ ppc = "failed" /\ part = NoPart
                  /\ pexc = "UnicodeDecodeError"

\* C6 witness: a Part whose header has both fields, with different values
C6_Witness ==
    /\ HasHeader /\ ppc = "done"
    /\ {"DESIGNITEMID", "LIBREFERENCE"} \subseteq DOMAIN PHeader
    /\ PHeader["DESIGNITEMID"] # PHeader["LIBREFERENCE"]
    /\ part.id = PHeader["DESIGNITEMID"]

FixedKeys == {KeyId, KeyDesignator, KeyDescription}
FixedField(k) ==
    IF k = KeyId THEN part.id
    ELSE IF k = KeyDesignator THEN part.designator ELSE part.desc

\* C10: the row of params() holds every property, and holds the id,
\* designator and description fields under 'id', 'designator' and
\* 'description' unless a property has that name, whose text then stands in
\* the row; computing the row leaves the Part as it was.
C10_ParamsRow ==
    /\ [](row # NoRow =>
            /\ DOMAIN row = DOMAIN part.properties \cup FixedKeys
            /\ \A n \in DOMAIN part.properties : row[n] = part.properties[n]
            /\ \A k \in FixedKeys \ DOMAIN part.properties :
                   row[k] = FixedField(k))
    /\ [][row' # row => part' = part]_vars

\* C10 witness: a row computed for a Part with a property named 'id' whose
\* text differs from the Part's id
C10_Witness ==
    /\ row # NoRow
    /\ KeyId \in DOMAIN part.properties
    /\ part.properties[KeyId] # part.id
    /\ row[KeyId] = part.properties[KeyId]

\* The stream without its undecodable records after the header
WithoutMalformed(records) ==
    <<records[1]>> \o
        SelectSeq(Tail(records), LAMBDA r : r.framing # "malformed")

\* C2 as stated: a stream with an undecodable record after the header
\* yields the Part that the stream without that record yields.
C2_AsStated ==
    (/\ PartEnded /\ Len(pStream) >= 1
     /\ \E i \in 2..Len(pStream) : pStream[i].framing = "malformed"
     /\ SchPartInit(WithoutMalformed(pStream), pDesc).exc = NoExc) =>
        /\ ppc = "done"
        /\ part = SchPartInit(WithoutMalformed(pStream), pDesc).self

\* -------------------------------------------------- properties of SchLib
\* The header record of the file under construction and its LIBREF values
FHeader == file.header.props
Libref(n) == Get(FHeader, LibrefKey(n), None)

\* The stop index: the least n whose LIBREF{n} is absent or empty
StopIndex ==
    CHOOSE k \in 0..MaxRefs :
        /\ Libref(k) \in {None, <<>>}
        /\ \A n \in 0..(k - 1) : Libref(n) \notin {None, <<>>}

SignatureOk == "HEADER" \in DOMAIN FHeader /\ FHeader["HEADER"] = Signature
VersionOk ==
    "MINORVERSION" \in DOMAIN FHeader /\ FHeader["MINORVERSION"] = <<50>>
ValidHeader == file.readable /\ SignatureOk /\ VersionOk

\* The reference at index n names a stream of the container
Resolvable(n) == IsAscii(Libref(n)) /\ Libref(n) \in DOMAIN file.container

\* The outcome of constructing the part of a resolvable reference
PartOf(n) == SchPartInit(file.container[Libref(n)], Description(FHeader, n))
PartOk(n) == Resolvable(n) /\ PartOf(n).exc = NoExc
PartFails(n) == Resolvable(n) /\ PartOf(n).exc # NoExc

LibEnded == lpc \in {"done", "failed"}

\* C1 as stated: when the part of some discovered reference fails to
\* construct (and every discovered reference has its stream), SchLib
\* construction completes, the table has no entry that failed, and has the
\* entry of every discovered reference whose part constructs.
C1_AsStated ==
    (/\ LibEnded /\ ValidHeader
     /\ \A n \in 0..(StopIndex - 1) : Resolvable(n)
     /\ \E n \in 0..(StopIndex - 1) : PartFails(n)) =>
        /\ lpc = "done"
        /\ \A n \in 0..(StopIndex - 1) :
               PartOk(n) => \E i \in 1..Len(parts) : parts[i].key = Libref(n)

\* C7 as stated: when a discovered reference has no stream in the
\* container, SchLib construction completes and the table has the entry of
\* every other discovered reference whose part constructs.
C7_AsStated ==
    (/\ LibEnded /\ ValidHeader
     /\ \A n \in 0..(StopIndex - 1) : IsAscii(Libref(n))
     /\ \E n \in 0..(StopIndex - 1) : ~Resolvable(n)) =>
        /\ lpc = "done"
        /\ \A n \in 0..(StopIndex - 1) :
               PartOk(n) => \E i \in 1..Len(parts) : parts[i].key = Libref(n)

\* C4: a header whose HEADER is not the signature or whose MINORVERSION is
\* not "2" never gets past the checks: construction can only fail, with a
\* format error, no stream of a part is opened and no table is assigned.
C4_HeaderValidated ==
    (file.readable /\ ~(SignatureOk /\ VersionOk)) =>
        /\ lpc \in {"open", "check", "failed"}
        /\ opened = <<>>
        /\ parts = NoParts
        /\ lpc = "failed" => lexc = [exc |-> "FormatError", origin |-> "check"]

\* C4 witness: construction failed on a header with the right signature,
\* a wrong minor version and a LIBREF0 naming a stored stream
C4_Witness ==
    /\ lpc = "failed" /\ file.readable /\ SignatureOk /\ ~VersionOk
    /\ StopIndex >= 1 /\ Resolvable(0)

\* Every part referenced below the stop index exists and constructs
WellFormed ==
    ValidHeader /\ \A n \in 0..(StopIndex - 1) : PartOk(n)

\* The references LIBREF0 .. LIBREF{n-1}, in index order
Librefs(n) == [i \in 1..n |-> Libref(i - 1)]

\* C3 as stated: for a well-formed library the finished table has exactly
\* StopIndex entries, keyed LIBREF0 .. LIBREF{StopIndex-1} in index order,
\* and the streams opened are exactly those of the indices visited.
C3_AsStated ==
    WellFormed =>
        /\ lpc # "failed"
        /\ lpc \in {"loop", "done"} =>
               /\ cnt <= StopIndex
               /\ opened = Librefs(cnt)
        /\ lpc = "done" =>
               /\ Len(parts) = StopIndex
               /\ PartsKeys(parts) = Librefs(StopIndex)

\* A sequence without the repetitions of earlier elements
RECURSIVE Distinct(_)
Distinct(q) ==
    IF q = <<>> THEN <<>>
    ELSE LET front == Distinct(SubSeq(q, 1, Len(q) - 1))
         IN  IF \E i \in 1..Len(front) : front[i] = q[Len(q)]
             THEN front ELSE Append(front, q[Len(q)])

\* C3 amended: for a well-formed library construction completes, visits
\* the indices below StopIndex only, opening their streams in index order,
\* and the finished table has one entry per distinct reference string
\* among LIBREF0 .. LIBREF{StopIndex-1}, in order of first occurrence, each
\* holding the part built at the last index with that reference; so it has
\* exactly StopIndex entries when these references are pairwise distinct.
C3_ContiguousDiscovery ==
    WellFormed =>
        /\ lpc # "failed"
        /\ lpc \in {"loop", "done"} =>
               /\ cnt <= StopIndex
               /\ opened = Librefs(cnt)
        /\ lpc = "done" =>
               /\ PartsKeys(parts) = Distinct(Librefs(StopIndex))
               /\ \A i \in 1..Len(parts) :
                      parts[i].val =
                          PartOf(Last({n \in 0..(StopIndex - 1) :
                                          Libref(n) = parts[i].key})).self
               /\ Cardinality({Libref(n) : n \in 0..(StopIndex - 1)})
                      = StopIndex => Len(parts) = StopIndex

\* C3 witness: a finished well-formed library with a gap: LIBREF0 valid,
\* LIBREF1 absent or empty, LIBREF2 present
C3_Witness ==
    /\ lpc = "done" /\ WellFormed /\ StopIndex = 1
    /\ Libref(2) \notin {None, <<>>}
    /\ Len(parts) = 1

\* C9: the constructor ends; an iteration that does not end the loop
\* advances the index by exactly one; the index never passes the first
\* absent or empty LIBREF{n}, where a loop that finishes ends.
C9_LoopTerminates ==
    /\ <>LibEnded
    /\ [][/\ (lpc = "loop" /\ lpc' = "loop") => cnt' = cnt + 1
          /\ lpc' \in {"loop", "done"} => cnt' <= StopIndex
          /\ lpc' = "done" => cnt' = StopIndex]_vars

\* C9 witness: the loop goes on after an index whose part failed and was
\* skipped
C9_Witness ==
    /\ lpc = "loop" /\ cnt >= 1
    /\ Caught(PartOf(cnt - 1).exc)
    /\ Libref(cnt) \notin {None, <<>>}

\* -------------------------------------------------- properties of LibPkg
\* The documents of the package that are schematic libraries
SchLibDocs == {i \in 1..Len(pkg.documents) : IsSchLib(pkg.documents[i])}
LibOfDoc(i) == SchLibInit(pkg.files[Basename(pkg.documents[i])])

\* C8 as stated: when a library of the package fails, construction of the
\* package still completes and schlibs has an entry for every library of
\* the manifest that is valid.
C8_AsStated ==
    (/\ kpc \in {"done", "failed"} /\ pkg.version = "1.0"
     /\ \E i \in SchLibDocs : LibOfDoc(i).exc # NoExc) =>
        /\ kpc = "done"
        /\ \A i \in SchLibDocs :
               LibOfDoc(i).exc = NoExc =>
                   Basename(pkg.documents[i]) \in DOMAIN schlibs

====
